---- MODULE Spec2Model ----
(***************************************************************************)
(* Model of src/dns-operation/dnsResolver.js (class DNSResolver): the      *)
(* two-tier cached DNS resolution, its TTL / query-id rewriting and the    *)
(* upstream dispatch, with several resolutions in flight on one instance.  *)
(***************************************************************************)
EXTENDS Integers, Sequences, FiniteSets, TLC

\* ------------------------------------------------------------------ bounds
Procs == {1, 2}
MaxResolves == 2
StartNow == 100000
TickStep == 40500
MaxNow == 141100
MaxNameLen == 2
MaxCalls == 2

\* --------------------------------------------------------- program constants
ttlGraceSec == 30
AbnormallyHighTtl == 1073741824
MsPerSec == 1000

\* ------------------------------------------------------------ JS sentinels
Null == -1
NullObj == [null |-> TRUE]
NullKey == <<>>
False == [hit |-> FALSE]
NoEntry == [present |-> FALSE]
Undefined == -2

Min(a, b) == IF a < b THEN a ELSE b
Max(a, b) == IF a > b THEN a ELSE b

\* ------------------------------------------------------- String.prototype
IsSpace(c) == c = " "

RECURSIVE TrimStart(_)
TrimStart(s) ==
  IF s = <<>> THEN <<>>
  ELSE IF IsSpace(Head(s)) THEN TrimStart(Tail(s)) ELSE s

RECURSIVE TrimEnd(_)
TrimEnd(s) ==
  IF s = <<>> THEN <<>>
  ELSE IF IsSpace(s[Len(s)]) THEN TrimEnd(SubSeq(s, 1, Len(s) - 1)) ELSE s

Trim(s) == TrimEnd(TrimStart(s))

LowerOf(c) ==
  CASE c = "A" -> "a"
    [] c = "B" -> "b"
    [] OTHER -> c

ToLowerCase(s) == [i \in 1..Len(s) |-> LowerOf(s[i])]

\* ------------------------------------------------------------- dnsutil.js
rcodeNoError(packet) == packet.rcode = "NOERROR"

hasAnswers(packet) == Len(packet.answers) > 0

optAnswer(a) == a.type = "OPT"

truncated(a) == a.tc

validResponseSize(dnsPacket) == ~dnsPacket.short

\* -------------------------------------------------------- dnsParserWrap.js
\* Wire bytes carry the message and whether a decoder accepts them.
Decode(dnsPacket) ==
  IF dnsPacket.malformed THEN NullObj
  ELSE [id |-> dnsPacket.id, rcode |-> dnsPacket.rcode, tc |-> dnsPacket.tc,
        questions |-> dnsPacket.questions, answers |-> dnsPacket.answers]

Encode(decodedDnsPacket, encOk) ==
  IF ~encOk THEN NullObj
  ELSE [short |-> FALSE, malformed |-> FALSE, tc |-> decodedDnsPacket.tc,
        id |-> decodedDnsPacket.id, rcode |-> decodedDnsPacket.rcode,
        questions |-> decodedDnsPacket.questions,
        answers |-> decodedDnsPacket.answers]

\* ------------------------------------------------------- DNSResolver (pure)
cacheKey_firstQuestion(packet) ==
  IF Len(packet.questions) < 1 THEN NullKey
  ELSE ToLowerCase(Trim(packet.questions[1].name))
         \o <<":">> \o <<packet.questions[1].type>>

cacheKey_noTrim(packet) ==
  IF Len(packet.questions) # 1 THEN NullKey
  ELSE ToLowerCase(packet.questions[1].name)
         \o <<":">> \o <<packet.questions[1].type>>

cacheKey(packet) ==
  IF Len(packet.questions) # 1 THEN NullKey
  ELSE ToLowerCase(Trim(packet.questions[1].name))
         \o <<":">> \o <<packet.questions[1].type>>

httpCacheKey(u, p) == <<u.origin, "/">> \o p

\* a.ttl || minttl : a missing ttl and a ttl of 0 are both falsy
TtlOr(a, minttl) == IF a.ttl = Undefined \/ a.ttl = 0 THEN minttl ELSE a.ttl

RECURSIVE MinTtlLoop(_, _)
MinTtlLoop(answers, minttl) ==
  IF answers = <<>> THEN minttl
  ELSE MinTtlLoop(Tail(answers), Min(TtlOr(Head(answers), minttl), minttl))

determineCacheExpiry_noGrace(decodedDnsPacket, dateNow) ==
  LET expiresImmediately == 0
      minttl == MinTtlLoop(decodedDnsPacket.answers, AbnormallyHighTtl)
  IN IF ~rcodeNoError(decodedDnsPacket) THEN expiresImmediately
     ELSE IF ~hasAnswers(decodedDnsPacket) THEN expiresImmediately
     ELSE IF minttl = AbnormallyHighTtl THEN expiresImmediately
     ELSE dateNow + minttl * MsPerSec

determineCacheExpiry(decodedDnsPacket, dateNow) ==
  LET expiresImmediately == 0
      minttl == MinTtlLoop(decodedDnsPacket.answers, AbnormallyHighTtl)
  IN IF ~rcodeNoError(decodedDnsPacket) THEN expiresImmediately
     ELSE IF ~hasAnswers(decodedDnsPacket) THEN expiresImmediately
     ELSE IF minttl = AbnormallyHighTtl THEN expiresImmediately
     ELSE dateNow + Max(minttl + ttlGraceSec, ttlGraceSec) * MsPerSec

updateQueryId_noZeroCheck(decodedDnsPacket, queryId) ==
  IF queryId = decodedDnsPacket.id
  THEN [updated |-> FALSE, packet |-> decodedDnsPacket]
  ELSE [updated |-> TRUE, packet |-> [decodedDnsPacket EXCEPT !.id = queryId]]

updateQueryId(decodedDnsPacket, queryId) ==
  IF queryId = 0 THEN [updated |-> FALSE, packet |-> decodedDnsPacket]
  ELSE IF queryId = decodedDnsPacket.id
       THEN [updated |-> FALSE, packet |-> decodedDnsPacket]
  ELSE [updated |-> TRUE, packet |-> [decodedDnsPacket EXCEPT !.id = queryId]]

updateTtl_noGraceFloor(decodedDnsPacket, end, dateNow) ==
  LET outttl == (end - dateNow) \div MsPerSec
      Touched(a) == ~optAnswer(a) /\ a.ttl # outttl
      ans == decodedDnsPacket.answers
  IN IF end < dateNow THEN [updated |-> FALSE, packet |-> decodedDnsPacket]
     ELSE [updated |-> \E i \in 1..Len(ans) : Touched(ans[i]),
           packet |-> [decodedDnsPacket EXCEPT !.answers =
                         [i \in 1..Len(ans) |->
                            IF Touched(ans[i])
                            THEN [ans[i] EXCEPT !.ttl = outttl]
                            ELSE ans[i]]]]

updateTtl_alwaysUpdated(decodedDnsPacket, end, dateNow) ==
  LET outttl == Max((end - dateNow) \div MsPerSec, ttlGraceSec)
      ans == decodedDnsPacket.answers
  IN IF end < dateNow THEN [updated |-> FALSE, packet |-> decodedDnsPacket]
     ELSE [updated |-> \E i \in 1..Len(ans) : ~optAnswer(ans[i]),
           packet |-> [decodedDnsPacket EXCEPT !.answers =
                         [i \in 1..Len(ans) |->
                            IF ~optAnswer(ans[i])
                            THEN [ans[i] EXCEPT !.ttl = outttl]
                            ELSE ans[i]]]]

updateTtl(decodedDnsPacket, end, dateNow) ==
  LET outttl == Max((end - dateNow) \div MsPerSec, ttlGraceSec)
      Touched(a) == ~optAnswer(a) /\ a.ttl # outttl
      ans == decodedDnsPacket.answers
  IN IF end < dateNow THEN [updated |-> FALSE, packet |-> decodedDnsPacket]
     ELSE [updated |-> \E i \in 1..Len(ans) : Touched(ans[i]),
           packet |-> [decodedDnsPacket EXCEPT !.answers =
                         [i \in 1..Len(ans) |->
                            IF Touched(ans[i])
                            THEN [ans[i] EXCEPT !.ttl = outttl]
                            ELSE ans[i]]]]

makeCacheResponse_noStale(queryId, dnsPacket, expiry, dateNow1, dateNow2, encOk) ==
  LET decodedDnsPacket == Decode(dnsPacket)
  IN IF decodedDnsPacket = NullObj THEN False
     ELSE
       LET exp == IF expiry = Null
                  THEN determineCacheExpiry(decodedDnsPacket, dateNow1)
                  ELSE expiry
           t == updateTtl(decodedDnsPacket, exp, dateNow2)
           q == updateQueryId(t.packet, queryId)
           reencode == q.updated \/ t.updated
           updatedDnsPacket == IF reencode THEN Encode(q.packet, encOk)
                               ELSE dnsPacket
       IN IF updatedDnsPacket = NullObj THEN False
          ELSE [hit |-> TRUE, dnsPacket |-> updatedDnsPacket,
                decodedDnsPacket |-> q.packet, ttlEndTime |-> exp]

\* dateNow1 is the clock read at line 135 (cached entry) or in
\* determineCacheExpiry (new entrant); dateNow2 is the read in updateTtl.
\* The resolver's steps pass the same instant for both reads.
makeCacheResponse(queryId, dnsPacket, expiry, dateNow1, dateNow2, encOk) ==
  IF expiry # Null /\ expiry < dateNow1 THEN False
  ELSE
    LET decodedDnsPacket == Decode(dnsPacket)
    IN IF decodedDnsPacket = NullObj THEN False
       ELSE
         LET exp == IF expiry = Null
                    THEN determineCacheExpiry(decodedDnsPacket, dateNow1)
                    ELSE expiry
             t == updateTtl(decodedDnsPacket, exp, dateNow2)
             q == updateQueryId(t.packet, queryId)
             reencode == q.updated \/ t.updated
             updatedDnsPacket == IF reencode THEN Encode(q.packet, encOk)
                                 ELSE dnsPacket
         IN IF updatedDnsPacket = NullObj THEN False
            ELSE [hit |-> TRUE, dnsPacket |-> updatedDnsPacket,
                  decodedDnsPacket |-> q.packet, ttlEndTime |-> exp]

\* Methods of class DNSResolver: the class body (lines 21-324) and the two
\* prototype assignments; httpCacheMetadata is a module-level function.
Methods ==
  {"lazyInit", "RethinkModule", "resolveRequest", "resolveFromCache",
   "resolveFromLocalCache", "resolveFromHttpCache", "makeCacheResponse",
   "updateCachesIfNeeded", "updateLocalCacheIfNeeded",
   "updateHttpCacheIfNeeded", "httpCacheHeaders", "upstreamQuery",
   "determineCacheExpiry", "cacheKey", "httpCacheKey", "updateQueryId",
   "updateTtl", "resolveDnsUpstream", "doh2"}

Threw(msg) == [threw |-> TRUE, error |-> msg]

httpCacheMetadata(cacheRes, blFilter) ==
  IF Len(cacheRes.decodedDnsPacket.questions) # 1
  THEN Threw("cache expects just the one dns question")
  ELSE IF blFilter = "throws" THEN Threw("blocklist filter failed")
  ELSE [threw |-> FALSE,
        value |-> [ttlEndTime |-> cacheRes.ttlEndTime, bodyUsed |-> TRUE,
                   blocklistInfo |-> blFilter]]

\* this.httpCacheMetadata(...) is a property lookup on the instance
httpCacheHeaders(cres, blFilter) ==
  IF "httpCacheMetadata" \notin Methods
  THEN Threw("this.httpCacheMetadata is not a function")
  ELSE httpCacheMetadata(cres, blFilter)

updateLocalCacheIfNeeded_noZeroCheck(cache, k, v) ==
  IF k = NullKey \/ ~v.hit THEN cache
  ELSE [cache EXCEPT ![k] = [present |-> TRUE, dnsPacket |-> v.dnsPacket,
                             ttlEndTime |-> v.ttlEndTime]]

updateLocalCacheIfNeeded_keepsExisting(cache, k, v) ==
  IF k = NullKey \/ ~v.hit THEN cache
  ELSE IF v.ttlEndTime = 0 THEN cache
  ELSE IF cache[k].present THEN cache
  ELSE [cache EXCEPT ![k] = [present |-> TRUE, dnsPacket |-> v.dnsPacket,
                             ttlEndTime |-> v.ttlEndTime]]

updateLocalCacheIfNeeded(cache, k, v) ==
  IF k = NullKey \/ ~v.hit THEN cache
  ELSE IF v.ttlEndTime = 0 THEN cache
  ELSE [cache EXCEPT ![k] = [present |-> TRUE, dnsPacket |-> v.dnsPacket,
                             ttlEndTime |-> v.ttlEndTime]]

\* Outcome of the call: the puts handed to event.waitUntil and what it threw.
updateHttpCacheIfNeeded(hasHttpCache, prm, k, cacheRes) ==
  LET none == [threw |-> FALSE, puts |-> {}]
      headers == httpCacheHeaders(cacheRes, prm.blocklistFilter)
  IN IF ~hasHttpCache THEN none
     ELSE IF k = NullKey \/ ~cacheRes.hit THEN none
     ELSE IF cacheRes.ttlEndTime = 0 THEN none
     ELSE IF headers.threw THEN [threw |-> TRUE, error |-> headers.error,
                                 puts |-> {}]
     ELSE [threw |-> FALSE,
           puts |-> {[cacheUrl |-> httpCacheKey(prm.request.url, k),
                      body |-> cacheRes.dnsPacket,
                      metadata |-> headers.value]}]

\* ------------------------------------------------------------------ inputs
Question(name) == [name |-> name, type |-> "A"]

Param(id, questions) ==
  [request |-> [url |-> [origin |-> "https://o1"]],
   requestBodyBuffer |-> [id |-> id, questions |-> questions],
   requestDecodedDnsPacket |-> [id |-> id, questions |-> questions],
   blocklistFilter |-> "ok"]

Params ==
  {Param(7, <<Question(<<"a">>)>>),
   Param(0, <<Question(<<" ", "A">>)>>),
   Param(7, <<Question(<<"a">>), Question(<<"b">>)>>)}

Answer(ttl) == [type |-> "A", ttl |-> ttl]
OptRecord == [type |-> "OPT", ttl |-> Undefined]

AnswerLists ==
  {<<>>, <<Answer(0)>>, <<Answer(300)>>, <<Answer(0), Answer(300)>>,
   <<OptRecord, Answer(1)>>}

Wire(q, rcode, answers, tc) ==
  [short |-> FALSE, malformed |-> FALSE, tc |-> tc, id |-> q.id,
   rcode |-> rcode, questions |-> q.questions, answers |-> answers]

ShortBody(q) == [Wire(q, "NOERROR", <<>>, FALSE) EXCEPT !.short = TRUE]
MalformedBody(q) == [Wire(q, "NOERROR", <<>>, FALSE) EXCEPT !.malformed = TRUE]

\* what an upstream resolver may send back for the query bytes q
UpstreamBodies(q) ==
  {Wire(q, "NOERROR", al, FALSE) : al \in AnswerLists}
    \cup {Wire(q, "NXDOMAIN", <<Answer(300)>>, FALSE),
          ShortBody(q), MalformedBody(q)}

UdpReplies(q) ==
  UpstreamBodies(q) \cup {NullObj, Wire(q, "NOERROR", <<>>, TRUE)}
TcpReplies(q) == UpstreamBodies(q) \cup {NullObj}

Response(body) == [ok |-> TRUE, body |-> body]
Response503 == [ok |-> FALSE, body |-> NullObj]

FetchOutcomes(q) ==
  {[rejected |-> TRUE]} \cup
  {[rejected |-> FALSE, upRes |-> r] :
     r \in {Response503} \cup {Response(b) : b \in UpstreamBodies(q)}}

Queries == {prm.requestBodyBuffer : prm \in Params}
AllUdpReplies == UNION {UdpReplies(q) : q \in Queries}
AllTcpReplies == UNION {TcpReplies(q) : q \in Queries}
AllFetchOutcomes == UNION {FetchOutcomes(q) : q \in Queries}

Keys == {cacheKey(prm.requestDecodedDnsPacket) : prm \in Params} \ {NullKey}
HKeys == {httpCacheKey(prm.request.url, k) : prm \in Params, k \in Keys}

Entry(dnsPacket, ttlEndTime) ==
  [present |-> TRUE, dnsPacket |-> dnsPacket, ttlEndTime |-> ttlEndTime]

\* entries another isolate may have left in caches.default
EdgeEntries ==
  LET q == [id |-> 9, questions |-> <<Question(<<"a">>)>>]
  IN {Entry(Wire(q, "NOERROR", <<Answer(300)>>, FALSE), StartNow + 330000),
      Entry(Wire(q, "NOERROR", <<Answer(30)>>, FALSE), StartNow + 20000),
      Entry(MalformedBody(q), StartNow + 330000)}

\* ------------------------------------------------------------------- state
\* pc, param, ans, sent: the position and the live locals of the resolution
\* running in each slot while it waits on a collaborator; returned: what the
\* step just taken handed to the caller of RethinkModule, if it returned.
\* The continuations that follow a settled promise without waiting on a
\* collaborator run in the same step.
VARIABLES variant, now, started, dnsResCache, httpCache, waitUntil,
          unhandledRejections, pc, param, ans, sent, returned

vars == <<variant, now, started, dnsResCache, httpCache, waitUntil,
          unhandledRejections, pc, param, ans, sent, returned>>

shared == <<dnsResCache, httpCache, waitUntil, unhandledRejections>>

HasHttpCache == variant = "workers"
HasTransport == variant = "node"

emptyResponse == [isException |-> FALSE, data |-> NullObj]
errResponse(msg) == [isException |-> TRUE, error |-> msg, data |-> NullObj]
dataResponse(c) ==
  [isException |-> FALSE,
   data |-> [responseBodyBuffer |-> c.dnsPacket,
             responseDecodedDnsPacket |-> c.decodedDnsPacket]]

Init ==
  /\ variant \in {"workers", "node", "other"}
  /\ now = StartNow
  /\ started = 0
  /\ dnsResCache = [k \in Keys |-> NoEntry]
  /\ httpCache \in [HKeys -> {NoEntry} \cup EdgeEntries]
  /\ (variant # "workers" => httpCache = [h \in HKeys |-> NoEntry])
  /\ waitUntil = {}
  /\ unhandledRejections = {}
  /\ pc = [p \in Procs |-> "idle"]
  /\ param = [p \in Procs |-> NullObj]
  /\ ans = [p \in Procs |-> NullObj]
  /\ sent = [p \in Procs |-> <<>>]
  /\ returned = NullObj

Dispatch == IF HasTransport THEN "udp" ELSE "fetch"

\* slot p waits at npc with the given locals
Locals(p, npc, nparam, nans, nsent) ==
  /\ pc' = [pc EXCEPT ![p] = npc]
  /\ param' = [param EXCEPT ![p] = nparam]
  /\ ans' = [ans EXCEPT ![p] = nans]
  /\ sent' = [sent EXCEPT ![p] = nsent]
  /\ returned' = NullObj

\* RethinkModule returns response r (line 68); c is the cache response it
\* was built from, s the upstream queries the resolution issued and d the
\* body upstream sent it
Return(p, prm, r, c, s, d) ==
  /\ pc' = [pc EXCEPT ![p] = "idle"]
  /\ param' = [param EXCEPT ![p] = NullObj]
  /\ ans' = [ans EXCEPT ![p] = NullObj]
  /\ sent' = [sent EXCEPT ![p] = <<>>]
  /\ returned' = [param |-> prm, response |-> r, cres |-> c, sent |-> s,
                  dnsPacket |-> d]

Fail_swallow(p, msg, s, d) == Return(p, param[p], emptyResponse, False, s, d)

\* a throw inside resolveRequest reaches RethinkModule's catch (lines 64-67)
Fail(p, msg, s, d) == Return(p, param[p], errResponse(msg), False, s, d)

RethinkModule_storesRewritten(p, prm, encOk) ==
  LET key == cacheKey(prm.requestDecodedDnsPacket)
      qid == prm.requestDecodedDnsPacket.id
      c == dnsResCache[key]
      cacheRes == IF ~c.present THEN False
                  ELSE makeCacheResponse(qid, c.dnsPacket, c.ttlEndTime,
                                         now, now, encOk)
  IN /\ pc[p] = "idle"
     /\ \A o \in Procs : o < p => pc[o] # "idle"
     /\ started < MaxResolves
     /\ started' = started + 1
     /\ UNCHANGED <<variant, now, httpCache, waitUntil, unhandledRejections>>
     /\ IF key = NullKey
        THEN /\ Locals(p, Dispatch, prm, NullObj, <<>>)
             /\ UNCHANGED dnsResCache
        ELSE IF cacheRes.hit
        THEN /\ Return(p, prm, dataResponse(cacheRes), cacheRes, <<>>,
                       NullObj)
             /\ dnsResCache' = updateLocalCacheIfNeeded(dnsResCache, key,
                                                        cacheRes)
        ELSE /\ Locals(p, IF HasHttpCache THEN "match" ELSE Dispatch, prm,
                       NullObj, <<>>)
             /\ UNCHANGED dnsResCache

RethinkModule_skipsLocal(p, prm, encOk) ==
  LET key == cacheKey(prm.requestDecodedDnsPacket)
  IN /\ pc[p] = "idle"
     /\ \A o \in Procs : o < p => pc[o] # "idle"
     /\ started < MaxResolves
     /\ started' = started + 1
     /\ UNCHANGED <<variant, now, shared>>
     /\ IF key = NullKey
        THEN Locals(p, Dispatch, prm, NullObj, <<>>)
        ELSE Locals(p, IF HasHttpCache THEN "match" ELSE Dispatch, prm,
                    NullObj, <<>>)

\* RethinkModule -> resolveRequest -> resolveFromCache -> resolveFromLocalCache
\* up to httpCache.match or the upstream query; a new resolution takes the
\* lowest free slot
RethinkModule(p, prm, encOk) ==
  LET key == cacheKey(prm.requestDecodedDnsPacket)
      qid == prm.requestDecodedDnsPacket.id
      c == dnsResCache[key]
      cacheRes == IF ~c.present THEN False
                  ELSE makeCacheResponse(qid, c.dnsPacket, c.ttlEndTime,
                                         now, now, encOk)
  IN /\ pc[p] = "idle"
     /\ \A o \in Procs : o < p => pc[o] # "idle"
     /\ started < MaxResolves
     /\ started' = started + 1
     /\ UNCHANGED <<variant, now, shared>>
     /\ IF key = NullKey
        THEN Locals(p, Dispatch, prm, NullObj, <<>>)
        ELSE IF cacheRes.hit
        THEN Return(p, prm, dataResponse(cacheRes), cacheRes, <<>>, NullObj)
        ELSE Locals(p, IF HasHttpCache THEN "match" ELSE Dispatch, prm,
                    NullObj, <<>>)

resolveFromHttpCache_failsOnBadEntry(p, encOk) ==
  LET key == cacheKey(param[p].requestDecodedDnsPacket)
      qid == param[p].requestDecodedDnsPacket.id
      hKey == httpCacheKey(param[p].request.url, key)
      resp == httpCache[hKey]
      cacheRes == IF ~resp.present THEN False
                  ELSE makeCacheResponse(qid, resp.dnsPacket, resp.ttlEndTime,
                                         now, now, encOk)
  IN /\ pc[p] = "match"
     /\ dnsResCache' = updateLocalCacheIfNeeded(dnsResCache, key, cacheRes)
     /\ IF cacheRes.hit
        THEN Return(p, param[p], dataResponse(cacheRes), cacheRes, <<>>,
                    NullObj)
        ELSE IF resp.present /\ resp.ttlEndTime >= now
        THEN Fail(p, "mkcache failed", <<>>, NullObj)
        ELSE Locals(p, Dispatch, param[p], NullObj, <<>>)
     /\ UNCHANGED <<variant, now, started, httpCache, waitUntil,
                    unhandledRejections>>

resolveFromHttpCache_noPromotion(p, encOk) ==
  LET key == cacheKey(param[p].requestDecodedDnsPacket)
      qid == param[p].requestDecodedDnsPacket.id
      hKey == httpCacheKey(param[p].request.url, key)
      resp == httpCache[hKey]
      cacheRes == IF ~resp.present THEN False
                  ELSE makeCacheResponse(qid, resp.dnsPacket, resp.ttlEndTime,
                                         now, now, encOk)
  IN /\ pc[p] = "match"
     /\ IF cacheRes.hit
        THEN Return(p, param[p], dataResponse(cacheRes), cacheRes, <<>>,
                    NullObj)
        ELSE Locals(p, Dispatch, param[p], NullObj, <<>>)
     /\ UNCHANGED <<variant, now, started, shared>>

\* resolveFromHttpCache once httpCache.match(hKey) and resp.arrayBuffer()
\* settled, then resolveFromCache promotes the entry and resolveRequest
\* returns it or goes upstream
resolveFromHttpCache(p, encOk) ==
  LET key == cacheKey(param[p].requestDecodedDnsPacket)
      qid == param[p].requestDecodedDnsPacket.id
      hKey == httpCacheKey(param[p].request.url, key)
      resp == httpCache[hKey]
      cacheRes == IF ~resp.present THEN False
                  ELSE makeCacheResponse(qid, resp.dnsPacket, resp.ttlEndTime,
                                         now, now, encOk)
  IN /\ pc[p] = "match"
     /\ dnsResCache' = updateLocalCacheIfNeeded(dnsResCache, key, cacheRes)
     /\ IF cacheRes.hit
        THEN Return(p, param[p], dataResponse(cacheRes), cacheRes, <<>>,
                    NullObj)
        ELSE Locals(p, Dispatch, param[p], NullObj, <<>>)
     /\ UNCHANGED <<variant, now, started, httpCache, waitUntil,
                    unhandledRejections>>

\* upstreamQuery once resolveDnsUpstream settled with upRes: what it throws
\* or the cache response it returns (lines 243-260)
upstreamQuery(prm, upRes, dateNow, encOk) ==
  IF ~upRes.ok THEN Threw("http err")
  ELSE IF ~validResponseSize(upRes.body)
  THEN Threw("inadequate response from upstream")
  ELSE [threw |-> FALSE,
        cres |-> makeCacheResponse(prm.requestDecodedDnsPacket.id, upRes.body,
                                   Null, dateNow, dateNow, encOk)]

updateCachesIfNeeded_noLocal(prm, cacheRes) ==
  LET k == cacheKey(prm.requestDecodedDnsPacket)
      h == updateHttpCacheIfNeeded(HasHttpCache, prm, k, cacheRes)
      nothing == [local |-> dnsResCache, puts |-> {}, rejected |-> {}]
  IN IF ~cacheRes.hit THEN nothing
     ELSE IF k = NullKey THEN nothing
     ELSE [local |-> dnsResCache,
           puts |-> h.puts,
           rejected |-> IF h.threw THEN {h.error} ELSE {}]

\* async updateCachesIfNeeded(param, cacheRes): the caches after the call
\* and the rejection of the promise it returns
updateCachesIfNeeded(prm, cacheRes) ==
  LET k == cacheKey(prm.requestDecodedDnsPacket)
      h == updateHttpCacheIfNeeded(HasHttpCache, prm, k, cacheRes)
      nothing == [local |-> dnsResCache, puts |-> {}, rejected |-> {}]
  IN IF ~cacheRes.hit THEN nothing
     ELSE IF k = NullKey THEN nothing
     ELSE [local |-> updateLocalCacheIfNeeded(dnsResCache, k, cacheRes),
           puts |-> h.puts,
           rejected |-> IF h.threw THEN {h.error} ELSE {}]

resolveRequest_awaitsPut(p, upRes, s, encOk) ==
  LET r == upstreamQuery(param[p], upRes, now, encOk)
      u == updateCachesIfNeeded(param[p], r.cres)
      k == cacheKey(param[p].requestDecodedDnsPacket)
  IN IF r.threw
     THEN /\ Fail(p, r.error, s, upRes.body)
          /\ UNCHANGED <<dnsResCache, waitUntil, unhandledRejections>>
     ELSE /\ dnsResCache' = u.local
          /\ waitUntil' = waitUntil \cup u.puts
          /\ unhandledRejections' = unhandledRejections \cup u.rejected
          /\ IF ~r.cres.hit
             THEN Fail(p, "No answer from cache or upstream", s, upRes.body)
             ELSE IF HasHttpCache /\ k # NullKey /\ r.cres.ttlEndTime # 0
             THEN Locals(p, "put", param[p], upRes, s)
             ELSE Return(p, param[p], dataResponse(r.cres), r.cres, s,
                         upRes.body)

\* resolveRequest from the settled upstream call on (lines 76-89); safeBox
\* drops the promise of updateCachesIfNeeded. s: the queries issued
resolveRequest(p, upRes, s, encOk) ==
  LET r == upstreamQuery(param[p], upRes, now, encOk)
      u == updateCachesIfNeeded(param[p], r.cres)
  IN IF r.threw
     THEN /\ Fail(p, r.error, s, upRes.body)
          /\ UNCHANGED <<dnsResCache, waitUntil, unhandledRejections>>
     ELSE /\ dnsResCache' = u.local
          /\ waitUntil' = waitUntil \cup u.puts
          /\ unhandledRejections' = unhandledRejections \cup u.rejected
          /\ IF ~r.cres.hit
             THEN Fail(p, "No answer from cache or upstream", s, upRes.body)
             ELSE Return(p, param[p], dataResponse(r.cres), r.cres, s,
                         upRes.body)

NeedsTcp_always(a) == a # NullObj

\* line 359: a truncated UDP answer is retried over TCP
NeedsTcp(a) == a # NullObj /\ truncated(a)

\* lines 364-366
TransportResponse(a) == IF a # NullObj THEN Response(a) ELSE Response503

\* resolveDnsUpstream, datagram transport: transport.udpquery(q) settles
udpquery(p, a, encOk) ==
  LET q == param[p].requestBodyBuffer
      s == Append(sent[p], [proto |-> "udp", q |-> q])
  IN /\ pc[p] = "udp"
     /\ a \in UdpReplies(q)
     /\ IF NeedsTcp(a)
        THEN /\ Locals(p, "tcp", param[p], a, s)
             /\ UNCHANGED <<dnsResCache, waitUntil, unhandledRejections>>
        ELSE resolveRequest(p, TransportResponse(a), s, encOk)
     /\ UNCHANGED <<variant, now, started, httpCache>>

\* resolveDnsUpstream, datagram transport: transport.tcpquery(q) settles
tcpquery(p, a, encOk) ==
  LET q == param[p].requestBodyBuffer
      s == Append(sent[p], [proto |-> "tcp", q |-> q])
  IN /\ pc[p] = "tcp"
     /\ a \in TcpReplies(q)
     /\ resolveRequest(p, TransportResponse(a), s, encOk)
     /\ UNCHANGED <<variant, now, started, httpCache>>

\* resolveDnsUpstream, DNS-over-HTTPS: fetch(newRequest) / doh2 settles
fetch(p, o, encOk) ==
  LET q == param[p].requestBodyBuffer
      s == Append(sent[p], [proto |-> "doh", q |-> q])
  IN /\ pc[p] = "fetch"
     /\ o \in FetchOutcomes(q)
     /\ IF o.rejected
        THEN /\ Fail(p, "fetch failed", s, NullObj)
             /\ UNCHANGED <<dnsResCache, waitUntil, unhandledRejections>>
        ELSE resolveRequest(p, o.upRes, s, encOk)
     /\ UNCHANGED <<variant, now, started, httpCache>>

\* Date.now() advances
Tick ==
  /\ now + TickStep <= MaxNow
  /\ now' = now + TickStep
  /\ returned' = NullObj
  /\ UNCHANGED <<variant, started, shared, pc, param, ans, sent>>

Next ==
  \/ \E p \in Procs, prm \in Params, encOk \in BOOLEAN :
       RethinkModule(p, prm, encOk)
  \/ \E p \in Procs, encOk \in BOOLEAN : resolveFromHttpCache(p, encOk)
  \/ \E p \in Procs, encOk \in BOOLEAN :
       \E a \in AllUdpReplies : udpquery(p, a, encOk)
  \/ \E p \in Procs, encOk \in BOOLEAN :
       \E a \in AllTcpReplies : tcpquery(p, a, encOk)
  \/ \E p \in Procs, encOk \in BOOLEAN :
       \E o \in AllFetchOutcomes : fetch(p, o, encOk)
  \/ Tick

Spec == Init /\ [][Next]_vars

\* -------------------------------------------- Workers, upstream call settled
\* The same resolver on Workers, serving one kind of request on an empty
\* edge cache, with the settling of the upstream call and the continuation
\* of resolveRequest taken as two steps.
InitWorkers ==
  /\ Init
  /\ variant = "workers"
  /\ httpCache = [h \in HKeys |-> NoEntry]

WorkersParams == {Param(7, <<Question(<<"a">>)>>)}

\* fetch(newRequest) settles with a response; upstreamQuery and
\* resolveRequest have yet to run on
fetch_settles(p, o) ==
  LET q == param[p].requestBodyBuffer
      s == Append(sent[p], [proto |-> "doh", q |-> q])
  IN /\ pc[p] = "fetch"
     /\ o \in FetchOutcomes(q)
     /\ ~o.rejected
     /\ Locals(p, "resume", param[p], o.upRes, s)
     /\ UNCHANGED <<variant, now, started, shared>>

\* fetch(newRequest) rejects
fetch_rejects(p, encOk) == fetch(p, [rejected |-> TRUE], encOk)

\* upstreamQuery runs on from line 247 and resolveRequest from line 77
resolveRequest_resume(p, encOk) ==
  /\ pc[p] = "resume"
  /\ resolveRequest(p, ans[p], sent[p], encOk)
  /\ UNCHANGED <<variant, now, started, httpCache>>

NextWorkers ==
  \/ \E p \in Procs, prm \in WorkersParams, encOk \in BOOLEAN :
       RethinkModule(p, prm, encOk)
  \/ \E p \in Procs, encOk \in BOOLEAN : resolveFromHttpCache(p, encOk)
  \/ \E p \in Procs : \E o \in AllFetchOutcomes : fetch_settles(p, o)
  \/ \E p \in Procs, encOk \in BOOLEAN : fetch_rejects(p, encOk)
  \/ \E p \in Procs, encOk \in BOOLEAN : resolveRequest_resume(p, encOk)

\* The continuation of a resolveRequest whose awaited promise has settled is
\* a queued microtask: it runs. Nothing is assumed of the upstream, the edge
\* cache or the callers.
SpecWorkers ==
  /\ InitWorkers
  /\ [][NextWorkers]_vars
  /\ \A p \in Procs :
       WF_vars(\E encOk \in BOOLEAN : resolveRequest_resume(p, encOk))

\* ------------------------------------------------------- cacheKey, called
\* cacheKey applied to decoded packets with zero, one or two questions whose
\* names are drawn from letters of both cases and spaces; sent[p] collects
\* what the calls on the packet in param[p] returned.
NameChars == {"a", "A", " "}

Names == UNION {[1..n -> NameChars] : n \in 0..MaxNameLen}

QuestionLists ==
  {<<>>}
    \cup {<<[name |-> n, type |-> t]>> : n \in Names, t \in {"A", "AAAA"}}
    \cup {<<[name |-> n, type |-> "A"], Question(<<"b">>)>> : n \in Names}

InitKey ==
  /\ variant = "other"
  /\ now = StartNow
  /\ started = 0
  /\ dnsResCache = [k \in Keys |-> NoEntry]
  /\ httpCache = [h \in HKeys |-> NoEntry]
  /\ waitUntil = {}
  /\ unhandledRejections = {}
  /\ pc = [p \in Procs |-> "idle"]
  /\ param \in [Procs -> {Param(7, qs) : qs \in QuestionLists}]
  /\ ans = [p \in Procs |-> NullObj]
  /\ sent = [p \in Procs |-> <<>>]
  /\ returned = NullObj

\* this.cacheKey(param.requestDecodedDnsPacket), lines 97 and 181
cacheKey_call(p) ==
  /\ Len(sent[p]) < MaxCalls
  /\ sent' = [sent EXCEPT
                ![p] = Append(@, cacheKey(param[p].requestDecodedDnsPacket))]
  /\ UNCHANGED <<variant, now, started, shared, pc, param, ans, returned>>

NextKey == \E p \in Procs : cacheKey_call(p)

SpecKey == InitKey /\ [][NextKey]_vars

\* ------------------------------------------------------ updateTtl, called
\* updateTtl applied over and over, at one instant, to a decoded packet with
\* one expiry; ans[p] holds the expiry, the packet as the calls left it and
\* what each call returned.
TtlAnswerLists ==
  {<<>>, <<Answer(0)>>, <<Answer(30)>>, <<Answer(300)>>, <<OptRecord>>,
   <<Answer(0), Answer(300)>>, <<OptRecord, Answer(30)>>,
   <<Answer(300), Answer(300)>>}

\* expiries: none (0), just past, now, and up to 330 s ahead
TtlExpiries ==
  {0, StartNow - 1, StartNow, StartNow + 999, StartNow + 29999,
   StartNow + 31000, StartNow + 330000}

TtlInputs ==
  {[end |-> e,
    packet |-> [id |-> 7, rcode |-> "NOERROR", tc |-> FALSE,
                questions |-> <<Question(<<"a">>)>>, answers |-> al],
    calls |-> <<>>] : e \in TtlExpiries, al \in TtlAnswerLists}

InitTtl ==
  /\ variant = "other"
  /\ now = StartNow
  /\ started = 0
  /\ dnsResCache = [k \in Keys |-> NoEntry]
  /\ httpCache = [h \in HKeys |-> NoEntry]
  /\ waitUntil = {}
  /\ unhandledRejections = {}
  /\ pc = [p \in Procs |-> "idle"]
  /\ param = [p \in Procs |-> NullObj]
  /\ ans \in [Procs -> TtlInputs]
  /\ sent = [p \in Procs |-> <<>>]
  /\ returned = NullObj

\* this.updateTtl(decodedDnsPacket, expiry), line 156: the packet is updated
\* in place
updateTtl_call(p) ==
  LET r == updateTtl(ans[p].packet, ans[p].end, now)
  IN /\ Len(ans[p].calls) < MaxCalls
     /\ ans' = [ans EXCEPT ![p] = [end |-> ans[p].end,
                                   packet |-> r.packet,
                                   calls |-> Append(ans[p].calls, r)]]
     /\ UNCHANGED <<variant, now, started, shared, pc, param, sent, returned>>

NextTtl == \E p \in Procs : updateTtl_call(p)

SpecTtl == InitTtl /\ [][NextTtl]_vars

\* ================================================================== claims
SingleQuestion(prm) == Len(prm.requestDecodedDnsPacket.questions) = 1

\* the key the specification gives a single-question request
ExpectedKey(prm) ==
  LET q == prm.requestDecodedDnsPacket.questions[1]
  IN ToLowerCase(Trim(q.name)) \o <<":">> \o <<q.type>>

\* answers that carry a TTL, and the least of a non-empty set of numbers
TtlsOf(answers) ==
  {answers[i].ttl : i \in {j \in 1..Len(answers) : answers[j].ttl # Undefined}}
Least(S) == CHOOSE x \in S : \A y \in S : x <= y

\* the slot the next resolve runs in
NextSlot ==
  CHOOSE p \in Procs : /\ pc[p] = "idle"
                       /\ \A o \in Procs : o < p => pc[o] # "idle"

\* the request of the resolve that starts in this step
StartedParam ==
  IF pc'[NextSlot] = "idle" THEN returned'.param ELSE param'[NextSlot]

\* slot p took a step from one position to another
Step(p, from, to) == pc[p] = from /\ pc'[p] = to

\* the resolve in slot p returned to its caller in this step
Returns(p) == pc[p] # "idle" /\ pc'[p] = "idle"

\* the resolve in slot p returned in this step, having read a body of at
\* least the minimum size from upstream
ReturnsFromUpstream(p) ==
  /\ Returns(p)
  /\ returned'.dnsPacket # NullObj
  /\ ~returned'.dnsPacket.short

\* a resolve has returned an answer it got from upstream
ReturnedUpstreamAnswer ==
  /\ returned # NullObj
  /\ returned.sent # <<>>
  /\ ~returned.response.isException

\* C1: no entry with a zero ttlEndTime is in the local cache, and no put
\* handed to the edge cache carries a zero ttlEndTime.
C1_NoZeroTtlCached ==
  /\ \A k \in Keys : dnsResCache[k].present => dnsResCache[k].ttlEndTime # 0
  /\ \A w \in waitUntil : w.metadata.ttlEndTime # 0

\* a resolve returned an uncacheable upstream answer and cached nothing
C1_Witness ==
  /\ ReturnedUpstreamAnswer
  /\ SingleQuestion(returned.param)
  /\ returned.cres.ttlEndTime = 0
  /\ ~dnsResCache[cacheKey(returned.param.requestDecodedDnsPacket)].present

\* the edge entry the resolve in slot p looks up
EdgeEntryOf(p) ==
  httpCache[httpCacheKey(param[p].request.url,
                         cacheKey(param[p].requestDecodedDnsPacket))]

\* C2: a stale entry (ttlEndTime strictly before now) is never returned: a
\* stale local entry sends the resolve to the edge lookup (or upstream when
\* there is no edge tier), a stale edge entry sends it upstream and is not
\* promoted, as a missing entry would.
C2_StaleNeverReturned ==
  [][/\ started' # started =>
          LET k == cacheKey(StartedParam.requestDecodedDnsPacket)
          IN (k # NullKey /\ dnsResCache[k].present
                /\ dnsResCache[k].ttlEndTime < now)
               => pc'[NextSlot] = IF HasHttpCache THEN "match" ELSE Dispatch
     /\ \A p \in Procs :
          (pc[p] = "match" /\ pc'[p] # "match"
             /\ EdgeEntryOf(p).present /\ EdgeEntryOf(p).ttlEndTime < now)
            => pc'[p] = Dispatch /\ dnsResCache' = dnsResCache]_vars

\* a resolve is going upstream past a stale local and a stale edge entry
C2_Witness ==
  \E p \in Procs :
    /\ pc[p] = "fetch" /\ SingleQuestion(param[p])
    /\ LET k == cacheKey(param[p].requestDecodedDnsPacket)
       IN dnsResCache[k].present /\ dnsResCache[k].ttlEndTime < now
    /\ EdgeEntryOf(p).present /\ EdgeEntryOf(p).ttlEndTime < now

\* the expiry the specification gives a decoded upstream answer
ClaimedExpiry(packet, dateNow) ==
  IF packet.rcode = "NOERROR" /\ Len(packet.answers) >= 1
       /\ TtlsOf(packet.answers) # {}
  THEN dateNow + Max(Least(TtlsOf(packet.answers)) + 30, 30) * 1000
  ELSE 0

\* C3: the expiry of a fresh upstream answer is now + max(min(TTLs) + 30, 30)
\* seconds for a "no error" answer with at least one answer record, TTLs of
\* 0 included, and 0 (not cacheable) otherwise.
C3_ExpiryIsMinTtlPlusGrace ==
  [][\A p \in Procs :
       (ReturnsFromUpstream(p) /\ returned'.cres.hit)
         => returned'.cres.ttlEndTime
              = ClaimedExpiry(Decode(returned'.dnsPacket), now)]_vars

\* the upstream answer of the returned resolve r: one "no error" answer
\* record with TTL t > 0 to a single question
OneAnswer(r) ==
  /\ SingleQuestion(r.param)
  /\ ~r.dnsPacket.malformed
  /\ r.dnsPacket.rcode = "NOERROR"
  /\ Len(r.dnsPacket.answers) = 1
  /\ r.dnsPacket.answers[1].ttl > 0

ReturnedTtl(r) == r.data.responseDecodedDnsPacket.answers[1].ttl

\* C4 as stated: the returned answer TTL is the upstream TTL t.
C4_TtlIsUpstreamTtl ==
  [][\A p \in Procs :
       (ReturnsFromUpstream(p) /\ OneAnswer(returned')
          /\ ~returned'.response.isException)
         => ReturnedTtl(returned'.response)
              = returned'.dnsPacket.answers[1].ttl]_vars

\* C4 amended: the returned answer TTL, decoded and in the bytes, is the
\* upstream TTL t plus the grace period.
C4_TtlIsUpstreamTtlPlusGrace ==
  [][\A p \in Procs :
       (ReturnsFromUpstream(p) /\ OneAnswer(returned')
          /\ ~returned'.response.isException)
         => /\ ReturnedTtl(returned'.response)
                 = returned'.dnsPacket.answers[1].ttl + 30
            /\ returned'.response.data.responseBodyBuffer.answers[1].ttl
                 = returned'.dnsPacket.answers[1].ttl + 30]_vars

\* a resolve returned 330 for an upstream TTL of 300
C4_Witness ==
  /\ ReturnedUpstreamAnswer
  /\ SingleQuestion(returned.param)
  /\ returned.dnsPacket.answers = <<Answer(300)>>
  /\ returned.response.data.responseDecodedDnsPacket.answers = <<Answer(330)>>
  /\ returned.response.data.responseBodyBuffer.answers = <<Answer(330)>>

\* the upstream answer of the returned resolve r is "no error" to a single
\* question and its least TTL is above 0
CacheableAnswer(r) ==
  /\ SingleQuestion(r.param)
  /\ ~r.dnsPacket.malformed
  /\ r.dnsPacket.rcode = "NOERROR"
  /\ TtlsOf(r.dnsPacket.answers) # {}
  /\ Least(TtlsOf(r.dnsPacket.answers)) > 0

\* C5: a single-question resolve that got a "no error" upstream answer with
\* least TTL t > 0 computes ttlEndTime = arrival time + (t + 30) * 1000 and,
\* when it returns, the local cache holds under lowercase(trim(name)):type
\* exactly the returned bytes with that ttlEndTime.
C5_LocalCachePopulated ==
  [][\A p \in Procs :
       (ReturnsFromUpstream(p) /\ CacheableAnswer(returned')
          /\ ~returned'.response.isException)
         => /\ returned'.cres.ttlEndTime
                 = now + (Least(TtlsOf(returned'.dnsPacket.answers)) + 30)
                           * 1000
            /\ dnsResCache'[ExpectedKey(returned'.param)]
                 = Entry(returned'.response.data.responseBodyBuffer,
                         returned'.cres.ttlEndTime)]_vars

\* the entry of a just-answered " A" query sits under "a:A", 330 s ahead
C5_Witness ==
  /\ ReturnedUpstreamAnswer
  /\ returned.param.requestDecodedDnsPacket.questions
       = <<Question(<<" ", "A">>)>>
  /\ dnsResCache[<<"a", ":", "A">>]
       = Entry(returned.response.data.responseBodyBuffer, now + 330000)

\* C6: a request without exactly one question has no cache key: its resolve
\* looks up neither tier, goes straight upstream, and none of its steps
\* writes either tier.
C6_MultiQuestionUncached ==
  [][/\ (started' # started /\ ~SingleQuestion(StartedParam))
          => pc'[NextSlot] = Dispatch
     /\ \A p \in Procs :
          (pc[p] # "idle" /\ pc'[p] # pc[p] /\ ~SingleQuestion(param[p]))
            => /\ pc[p] # "match" /\ pc'[p] # "match"
               /\ dnsResCache' = dnsResCache
               /\ httpCache' = httpCache
               /\ waitUntil' = waitUntil]_vars

\* a two-question resolve returned a cacheable answer, the caches are empty
C6_Witness ==
  /\ ReturnedUpstreamAnswer
  /\ Len(returned.param.requestDecodedDnsPacket.questions) = 2
  /\ returned.cres.ttlEndTime > now
  /\ \A k \in Keys : ~dnsResCache[k].present
  /\ waitUntil = {}

\* the cache lookup of prm would miss both tiers in the present state
WouldGoUpstream(prm) ==
  LET k == cacheKey(prm.requestDecodedDnsPacket)
      h == httpCacheKey(prm.request.url, k)
      id == prm.requestDecodedDnsPacket.id
  IN \/ k = NullKey
     \/ /\ \/ ~dnsResCache[k].present
           \/ ~makeCacheResponse(id, dnsResCache[k].dnsPacket,
                                 dnsResCache[k].ttlEndTime, now, now, TRUE).hit
        /\ \/ ~HasHttpCache
           \/ ~httpCache[h].present
           \/ ~makeCacheResponse(id, httpCache[h].dnsPacket,
                                 httpCache[h].ttlEndTime, now, now, TRUE).hit

\* C7: when the upstream exchange yields no usable answer (no reply, a
\* non-success status, a transport error, an undersized body) the resolve
\* ends with an error result without data, the step leaves both tiers as
\* they were, and a query that went upstream before still goes upstream.
C7_UpstreamFailureNotCached ==
  [][\A p \in Procs :
       (pc[p] \in {"udp", "tcp", "fetch"} /\ pc'[p] = "idle"
          /\ (returned'.dnsPacket = NullObj \/ returned'.dnsPacket.short))
         => /\ returned'.param = param[p]
            /\ returned'.response.isException
            /\ returned'.response.data = NullObj
            /\ dnsResCache' = dnsResCache
            /\ httpCache' = httpCache
            /\ waitUntil' = waitUntil
            /\ \A prm \in Params :
                 (prm = param[p] /\ WouldGoUpstream(prm))
                   => WouldGoUpstream(prm)']_vars

\* a resolve failed upstream and the same query would go upstream again
C7_Witness ==
  /\ returned # NullObj
  /\ returned.sent # <<>>
  /\ returned.response.isException
  /\ returned.response.error # "No answer from cache or upstream"
  /\ SingleQuestion(returned.param)
  /\ WouldGoUpstream(returned.param)

\* the upstream queries of slot p after a step, returned or not
SentAfter(p) == IF pc'[p] = "idle" THEN returned'.sent ELSE sent'[p]

\* C8: on the datagram transport a TCP query follows the UDP query exactly
\* when the UDP reply is marked truncated; it is the only one, carries the
\* same query bytes, and its reply is the upstream result (a failure when
\* there is none).
C8_OneTcpRetryOnTruncation ==
  [][\A p \in Procs :
       LET q == param[p].requestBodyBuffer
       IN /\ pc[p] = "udp" /\ pc'[p] # "udp"
            => /\ sent[p] = <<>>
               /\ SentAfter(p) = <<[proto |-> "udp", q |-> q]>>
               /\ IF pc'[p] = "tcp"
                  THEN ans'[p] # NullObj /\ ans'[p].tc
                  ELSE /\ pc'[p] = "idle"
                       /\ \/ returned'.dnsPacket = NullObj
                          \/ ~returned'.dnsPacket.tc
          /\ pc[p] = "tcp" /\ pc'[p] # "tcp"
            => /\ ans[p] # NullObj /\ ans[p].tc
               /\ SentAfter(p) = <<[proto |-> "udp", q |-> q],
                                   [proto |-> "tcp", q |-> q]>>
               /\ pc'[p] = "idle"
               /\ returned'.dnsPacket \in TcpReplies(q)
               /\ IF returned'.dnsPacket = NullObj
                  THEN returned'.response.isException
                  ELSE ~returned'.response.isException
                         => returned'.cres
                              = makeCacheResponse(q.id, returned'.dnsPacket,
                                                  Null, now, now, TRUE)]_vars

\* a resolve was answered over TCP after a truncated UDP reply
C8_Witness ==
  /\ HasTransport
  /\ ReturnedUpstreamAnswer
  /\ Len(returned.sent) = 2
  /\ returned.sent[2].proto = "tcp"

\* C9: a failure raised while the caches are populated does not fail the
\* resolve, which returns the upstream answer, and is caught: it leaves no
\* unhandled rejection.
C9_PopulationFailureContained ==
  [][\A p \in Procs :
       (ReturnsFromUpstream(p) /\ returned'.cres.hit)
         => /\ returned'.response = dataResponse(returned'.cres)
            /\ unhandledRejections' = unhandledRejections]_vars

\* C10: with an edge cache, a single-question resolve that got an upstream
\* answer with non-zero ttlEndTime schedules exactly one edge put, under
\* origin + "/" + key, with the returned bytes and the entry's ttlEndTime.
C10_EdgePutScheduled ==
  [][\A p \in Procs :
       (ReturnsFromUpstream(p) /\ HasHttpCache /\ SingleQuestion(returned'.param)
          /\ returned'.cres.hit /\ returned'.cres.ttlEndTime # 0)
         => \E w \in waitUntil' :
              /\ waitUntil' = waitUntil \cup {w}
              /\ w \notin waitUntil
              /\ w.cacheUrl = <<returned'.param.request.url.origin, "/">>
                                \o ExpectedKey(returned'.param)
              /\ w.body = returned'.response.data.responseBodyBuffer
              /\ w.metadata.ttlEndTime = returned'.cres.ttlEndTime]_vars

SourcePacket ==
  LET k == cacheKey(returned'.param.requestDecodedDnsPacket)
  IN IF returned'.dnsPacket # NullObj THEN returned'.dnsPacket
     ELSE IF started' # started THEN dnsResCache[k].dnsPacket
     ELSE httpCache[httpCacheKey(returned'.param.request.url, k)].dnsPacket

\* C12: every successful resolve, answered from the local tier, the edge
\* tier or upstream, returns a decoded response and bytes that carry the
\* request's id when that id is not 0; when the request's id is 0 or already
\* the packet's id, the id rewrite reports no change and leaves the packet as
\* it was, so the response keeps the id of the packet it was made from.
C12_QueryIdRewritten ==
  [][(returned' # NullObj /\ ~returned'.response.isException)
       => LET qid == returned'.param.requestDecodedDnsPacket.id
              d == returned'.response.data
              src == Decode(SourcePacket)
              u == updateQueryId(src, qid)
          IN /\ qid # 0
                  => /\ d.responseDecodedDnsPacket.id = qid
                     /\ d.responseBodyBuffer.id = qid
             /\ (qid = 0 \/ qid = src.id)
                  => /\ ~u.updated
                     /\ u.packet = src
                     /\ d.responseDecodedDnsPacket.id = src.id
                     /\ d.responseBodyBuffer.id = src.id]_vars

\* a request with id 7 was answered from an edge entry stored with id 9, or
\* a request with id 0 from a local entry stored with id 7
C12_Witness ==
  /\ returned # NullObj
  /\ ~returned.response.isException
  /\ returned.sent = <<>>
  /\ LET k == cacheKey(returned.param.requestDecodedDnsPacket)
         qid == returned.param.requestDecodedDnsPacket.id
         d == returned.response.data
     IN \/ /\ qid = 7
           /\ HasHttpCache
           /\ httpCache[httpCacheKey(returned.param.request.url, k)].present
           /\ httpCache[httpCacheKey(returned.param.request.url, k)]
                .dnsPacket.id = 9
           /\ d.responseBodyBuffer.id = 7
        \/ /\ qid = 0
           /\ ~HasHttpCache
           /\ dnsResCache[k].dnsPacket.id = 7
           /\ d.responseBodyBuffer.id = 7

\* a name without the spaces around it, by position
Core(n) ==
  LET I == {i \in 1..Len(n) : n[i] # " "}
      first == CHOOSE i \in I : \A j \in I : i <= j
      last == CHOOSE i \in I : \A j \in I : i >= j
  IN IF I = {} THEN <<>> ELSE [i \in 1..(last - first + 1) |-> n[first + i - 1]]

\* two letters are the same up to case
SameLetter(c, d) == c = d \/ {c, d} = {"a", "A"}

\* two names differ only in letter case and in the spaces around them
SameName(n, m) ==
  /\ Len(Core(n)) = Len(Core(m))
  /\ \A i \in 1..Len(Core(n)) : SameLetter(Core(n)[i], Core(m)[i])

\* C13: the cache key of a decoded packet is none unless it has exactly one
\* question, and is then lowercase(trim(name)) ":" type; every call on the
\* same packet returns the same key, and two single-question packets whose
\* names differ only in case or surrounding spaces and whose types are equal
\* get the same key.
C13_CacheKeyNormalised ==
  /\ \A p \in Procs : \A i \in 1..Len(sent[p]) :
       LET qs == param[p].requestDecodedDnsPacket.questions
       IN /\ (sent[p][i] = NullKey) <=> (Len(qs) # 1)
          /\ Len(qs) = 1
               => sent[p][i] = ToLowerCase(Core(qs[1].name))
                                 \o <<":", qs[1].type>>
          /\ sent[p][i] = sent[p][1]
  /\ \A p, o \in Procs :
       LET qs == param[p].requestDecodedDnsPacket.questions
           os == param[o].requestDecodedDnsPacket.questions
       IN (/\ sent[p] # <<>> /\ sent[o] # <<>>
           /\ Len(qs) = 1 /\ Len(os) = 1
           /\ SameName(qs[1].name, os[1].name)
           /\ qs[1].type = os[1].type)
            => sent[p][1] = sent[o][1]

\* the keys of " A" and of "a ", both called twice, are the same "a:A"
C13_Witness ==
  /\ param[1].requestDecodedDnsPacket.questions
       = <<[name |-> <<" ", "A">>, type |-> "A"]>>
  /\ param[2].requestDecodedDnsPacket.questions
       = <<[name |-> <<"a", " ">>, type |-> "A"]>>
  /\ Len(sent[1]) = 2 /\ Len(sent[2]) = 2
  /\ sent[1][2] = <<"a", ":", "A">>
  /\ sent[2][1] = sent[1][2]

\* C14: at a fixed current time and with the same expiry, a second (and any
\* later) application of updateTtl leaves the answer TTLs as the first
\* application left them and reports no change.
C14_UpdateTtlIdempotent ==
  \A p \in Procs : \A i \in 2..Len(ans[p].calls) :
    /\ ans[p].calls[i].packet.answers = ans[p].calls[1].packet.answers
    /\ ~ans[p].calls[i].updated

\* a first application rewrote 300 to the 31 s that remain and reported it,
\* the second changed nothing
C14_Witness ==
  \E p \in Procs :
    /\ Len(ans[p].calls) = 2
    /\ ans[p].end = now + 31000
    /\ ans[p].calls[1].updated
    /\ ans[p].calls[1].packet.answers = <<Answer(31), Answer(31)>>
    /\ ans[p].calls[2].packet.answers = <<Answer(31), Answer(31)>>
    /\ ~ans[p].calls[2].updated

\* a cache entry that is present, not stale and decodable
Fresh(entry) ==
  /\ entry.present
  /\ entry.ttlEndTime >= now
  /\ ~entry.dnsPacket.malformed

\* a fresh entry whose bytes answer a request with id qid as they are: the
\* id and the TTLs need no rewrite, so nothing is re-encoded
Servable(entry, qid) ==
  /\ Fresh(entry)
  /\ qid = 0 \/ qid = entry.dnsPacket.id
  /\ \A i \in 1..Len(entry.dnsPacket.answers) :
       LET a == entry.dnsPacket.answers[i]
       IN a.type # "OPT"
            => a.ttl = Max((entry.ttlEndTime - now) \div 1000, 30)

\* the local entry a request looks up
LocalEntryOf(prm) == dnsResCache[cacheKey(prm.requestDecodedDnsPacket)]

\* C15: the stages of a resolve run in the order local lookup, edge lookup,
\* upstream dispatch, population, return. The edge tier is consulted only
\* after the local lookup gave no answer, upstream is called only after both
\* tiers gave none (or there is no key); a resolve returns from a lookup only
\* with a fresh entry of that tier, and then it has issued no upstream call
\* and the edge tier and its pending writes are as before.
C15_StagesInOrder ==
  [][/\ started' # started =>
          LET prm == StartedParam
              qid == prm.requestDecodedDnsPacket.id
              keyed == SingleQuestion(prm)
          IN /\ pc'[NextSlot] \in {"idle", "match", Dispatch}
             /\ pc'[NextSlot] = "match"
                  => /\ HasHttpCache /\ keyed
                     /\ ~Servable(LocalEntryOf(prm), qid)
             /\ pc'[NextSlot] = Dispatch
                  => \/ ~keyed
                     \/ ~HasHttpCache /\ ~Servable(LocalEntryOf(prm), qid)
             /\ pc'[NextSlot] = "idle"
                  => /\ keyed /\ Fresh(LocalEntryOf(prm))
                     /\ ~returned'.response.isException
                     /\ returned'.sent = <<>>
                     /\ shared' = shared
     /\ \A p \in Procs :
          /\ (pc[p] = "match" /\ pc'[p] # "match")
               => /\ pc'[p] \in {"idle", Dispatch}
                  /\ sent[p] = <<>>
                  /\ pc'[p] = Dispatch
                       => ~Servable(EdgeEntryOf(p),
                                    param[p].requestDecodedDnsPacket.id)
                  /\ pc'[p] = "idle"
                       => /\ Fresh(EdgeEntryOf(p))
                          /\ ~returned'.response.isException
                          /\ returned'.sent = <<>>
                          /\ httpCache' = httpCache
                          /\ waitUntil' = waitUntil
          /\ (pc[p] = "udp" /\ pc'[p] # "udp") => pc'[p] \in {"tcp", "idle"}
          /\ (pc[p] \in {"tcp", "fetch"} /\ pc'[p] # pc[p]) => pc'[p] = "idle"
          /\ (pc[p] \in {"udp", "tcp", "fetch"} /\ pc'[p] = "idle")
               => returned'.sent # <<>>]_vars

\* a first resolve was answered from the edge tier: no upstream call, no
\* edge write, the entry promoted to the local tier
C15_Witness ==
  /\ HasHttpCache
  /\ started = 1
  /\ returned # NullObj
  /\ ~returned.response.isException
  /\ returned.sent = <<>>
  /\ waitUntil = {}
  /\ LocalEntryOf(returned.param).present

\* C16: there is no single-flight deduplication and the last write wins.
\* Whenever a resolve returns a cacheable upstream answer, the local entry
\* of its key becomes its own answer (bytes and expiry), whatever another
\* resolve wrote there meanwhile; an entry changes in no step but the
\* return or the edge lookup of a resolve for that key; and every entry
\* holds bytes and a non-zero expiry and nothing else.
C16_LastWriteWins ==
  [][/\ \A p \in Procs :
          (ReturnsFromUpstream(p) /\ SingleQuestion(returned'.param)
             /\ ~returned'.response.isException
             /\ returned'.cres.ttlEndTime # 0)
            => dnsResCache'[ExpectedKey(returned'.param)]
                 = Entry(returned'.response.data.responseBodyBuffer,
                         returned'.cres.ttlEndTime)
     /\ \A k \in Keys :
          /\ dnsResCache'[k] # dnsResCache[k]
               => \E p \in Procs :
                    /\ pc[p] \in {"match", "udp", "tcp", "fetch"}
                    /\ pc'[p] # pc[p]
                    /\ cacheKey(param[p].requestDecodedDnsPacket) = k
          /\ dnsResCache'[k].present
               => /\ DOMAIN dnsResCache'[k]
                       = {"present", "dnsPacket", "ttlEndTime"}
                  /\ dnsResCache'[k].ttlEndTime # 0]_vars

\* without an edge tier and before the clock moved, the second of two
\* resolves is still waiting on upstream while the local tier already holds,
\* from the first, an entry that would answer it as stored: both missed,
\* both went upstream
C16_Witness ==
  /\ ~HasHttpCache
  /\ now = StartNow
  /\ started = 2
  /\ \E p \in Procs :
       /\ pc[p] \in {"udp", "tcp", "fetch"}
       /\ SingleQuestion(param[p])
       /\ Servable(LocalEntryOf(param[p]),
                   param[p].requestDecodedDnsPacket.id)

\* the TTL a cached answer is served with at this instant
ServedTtl(ttlEndTime) == Max((ttlEndTime - now) \div 1000, 30)

\* every answer record of the packet that is not an OPT record has TTL t
AllTtls(packet, t) ==
  \A i \in 1..Len(packet.answers) :
    packet.answers[i].type # "OPT" => packet.answers[i].ttl = t

\* C17: a resolve answered from the local tier leaves the local entries,
\* the edge tier and its pending writes as they were: the entry it read
\* keeps its bytes and its ttlEndTime, and the rewritten TTLs and query id
\* are in the response only.
C17_LocalHitReadsOnly ==
  [][(started' # started /\ pc'[NextSlot] = "idle")
       => LET e == LocalEntryOf(returned'.param)
              qid == returned'.param.requestDecodedDnsPacket.id
              out == returned'.response.data.responseBodyBuffer
          IN /\ ~returned'.response.isException
             /\ dnsResCache' = dnsResCache
             /\ httpCache' = httpCache
             /\ waitUntil' = waitUntil
             /\ returned'.cres.ttlEndTime = e.ttlEndTime
             /\ AllTtls(out, ServedTtl(e.ttlEndTime))
             /\ qid # 0 => out.id = qid
             /\ out.questions = e.dnsPacket.questions]_vars

\* a request with id 7 was answered from a local entry stored with id 0
\* and TTL 330 a tick ago: the response has id 7 and a lower TTL, the entry
\* is as stored
C17_Witness ==
  /\ ~HasHttpCache
  /\ now > StartNow
  /\ returned # NullObj
  /\ returned.sent = <<>>
  /\ ~returned.response.isException
  /\ returned.param.requestDecodedDnsPacket.id = 7
  /\ LocalEntryOf(returned.param).dnsPacket.id = 0
  /\ LocalEntryOf(returned.param).dnsPacket.answers = <<Answer(330)>>
  /\ returned.response.data.responseBodyBuffer.id = 7
  /\ returned.response.data.responseBodyBuffer.answers[1].ttl < 330

\* C18: a resolve that missed the local tier and is answered from a
\* non-stale edge entry leaves, as it returns, a local entry under its key
\* with the rewritten response bytes and the ttlEndTime of the edge
\* metadata, neither extended nor shortened; an edge lookup that does not
\* answer writes nothing to the local tier.
C18_EdgeHitPromoted ==
  [][\A p \in Procs :
       (pc[p] = "match" /\ pc'[p] # "match")
         => IF pc'[p] = "idle"
            THEN /\ Fresh(EdgeEntryOf(p))
                 /\ ~returned'.response.isException
                 /\ dnsResCache'[ExpectedKey(param[p])]
                      = Entry(returned'.response.data.responseBodyBuffer,
                              EdgeEntryOf(p).ttlEndTime)
                 /\ \A k \in Keys \ {ExpectedKey(param[p])} :
                      dnsResCache'[k] = dnsResCache[k]
            ELSE dnsResCache' = dnsResCache]_vars

\* a request with id 7 was answered from the edge entry stored with id 9
\* and TTL 300; the local tier now holds the bytes with id 7 and the TTL
\* that remains, under the edge entry's ttlEndTime
C18_Witness ==
  /\ HasHttpCache
  /\ returned # NullObj
  /\ returned.sent = <<>>
  /\ returned.param.requestDecodedDnsPacket.id = 7
  /\ LET e == httpCache[httpCacheKey(returned.param.request.url,
                          cacheKey(returned.param.requestDecodedDnsPacket))]
         l == LocalEntryOf(returned.param)
     IN /\ e.present /\ l.present
        /\ e.dnsPacket.answers = <<Answer(300)>>
        /\ l.ttlEndTime = e.ttlEndTime
        /\ l.dnsPacket.id = 7
        /\ l.dnsPacket.answers = <<Answer(ServedTtl(e.ttlEndTime))>>
        /\ l.dnsPacket = returned.response.data.responseBodyBuffer

\* the entry the resolve that returned in this step without going upstream
\* was answered from
SourceEntry ==
  LET k == cacheKey(returned'.param.requestDecodedDnsPacket)
  IN IF started' # started THEN dnsResCache[k]
     ELSE httpCache[httpCacheKey(returned'.param.request.url, k)]

\* the TTLs the resolver would serve from entry e at instant t
TtlsServed(e, t) ==
  LET c == makeCacheResponse(0, e.dnsPacket, e.ttlEndTime, t, t, TRUE)
  IN IF ~c.hit THEN {}
     ELSE {c.decodedDnsPacket.answers[i].ttl :
             i \in {j \in 1..Len(c.decodedDnsPacket.answers) :
                      c.decodedDnsPacket.answers[j].type # "OPT"}}

\* C19: an answer served from a cache entry, of either tier, whose expiry
\* is not before now carries max(floor((expiry - now) / 1000), 30) as the
\* TTL of every answer record that is not an OPT record, in the bytes and
\* in the decoded response; so what an entry is served with is never below
\* 30 and, when the clock advances, never above what it was served with
\* before.
C19_ServedTtlIsRemaining ==
  [][/\ (returned' # NullObj /\ returned'.sent = <<>>)
          => LET d == returned'.response.data
                 t == Max((SourceEntry.ttlEndTime - now) \div 1000, 30)
             IN /\ SourceEntry.ttlEndTime >= now
                /\ AllTtls(d.responseBodyBuffer, t)
                /\ AllTtls(d.responseDecodedDnsPacket, t)
                /\ t >= 30
     /\ now' > now
          => \A e \in {dnsResCache[k] : k \in Keys}
                        \cup {httpCache[h] : h \in HKeys} :
               (e.present /\ e.ttlEndTime >= now')
                 => \A x \in TtlsServed(e, now') :
                      /\ x >= 30
                      /\ \A y \in TtlsServed(e, now) : x <= y]_vars

\* an answer was served with TTL 30 from an edge entry that expires in less
\* than 30 seconds
C19_Witness ==
  /\ HasHttpCache
  /\ returned # NullObj
  /\ returned.sent = <<>>
  /\ LET e == httpCache[httpCacheKey(returned.param.request.url,
                          cacheKey(returned.param.requestDecodedDnsPacket))]
     IN /\ e.present
        /\ e.ttlEndTime >= now
        /\ e.ttlEndTime - now < 30000
        /\ returned.cres.ttlEndTime = e.ttlEndTime
        /\ returned.response.data.responseBodyBuffer.answers = <<Answer(30)>>

\* C20: an entry of either tier that cannot be decoded or re-encoded counts
\* as a miss: the lookup returns no error and the resolve goes on to the
\* next tier or upstream. A fresh upstream answer that cannot be decoded or
\* re-encoded makes the resolve return an error without data, and nothing
\* is written to the local tier, the edge tier or its pending writes.
C20_MaterialisationFailure ==
  [][/\ started' # started =>
          /\ pc'[NextSlot] = "idle" => ~returned'.response.isException
          /\ (SingleQuestion(StartedParam)
                /\ LocalEntryOf(StartedParam).present
                /\ LocalEntryOf(StartedParam).ttlEndTime >= now
                /\ pc'[NextSlot] # "idle")
               => pc'[NextSlot] = IF HasHttpCache THEN "match" ELSE Dispatch
     /\ \A p \in Procs :
          /\ (pc[p] = "match" /\ pc'[p] # "match")
               => /\ pc'[p] = "idle" => ~returned'.response.isException
                  /\ (EdgeEntryOf(p).present /\ EdgeEntryOf(p).dnsPacket.malformed)
                       => pc'[p] = Dispatch
                  /\ pc'[p] # "idle" => pc'[p] = Dispatch
          /\ ReturnsFromUpstream(p)
               => /\ returned'.dnsPacket.malformed
                       => returned'.response.isException
                  /\ IF returned'.response.isException
                     THEN /\ returned'.response.data = NullObj
                          /\ returned'.response.error
                               = "No answer from cache or upstream"
                          /\ shared' = shared
                     ELSE /\ ~returned'.dnsPacket.malformed
                          /\ returned'.cres
                               = makeCacheResponse(
                                   returned'.param.requestDecodedDnsPacket.id,
                                   returned'.dnsPacket, Null, now, now,
                                   TRUE)]_vars

\* one resolve went past an edge entry that cannot be decoded and waits on
\* upstream, while another has just failed on an upstream answer that
\* cannot be decoded, with nothing cached
C20_Witness ==
  /\ HasHttpCache
  /\ \E p \in Procs :
       /\ pc[p] = "fetch"
       /\ SingleQuestion(param[p])
       /\ EdgeEntryOf(p).present
       /\ EdgeEntryOf(p).ttlEndTime >= now
       /\ EdgeEntryOf(p).dnsPacket.malformed
  /\ returned # NullObj
  /\ returned.dnsPacket # NullObj
  /\ returned.dnsPacket.malformed
  /\ returned.response.isException
  /\ \A k \in Keys : ~dnsResCache[k].present
  /\ waitUntil = {}

====
